---------------------------- MODULE Spec2Model ----------------------------
(***************************************************************************)
(* Model of src/components/ShotGenerator.tsx: the pending-pair store       *)
(* (addPair, removePendingPair, handleImageUpload, handleBatchDrop), the   *)
(* batch processor (processBatch) and the project callbacks it uses.       *)
(*                                                                         *)
(* Execution model.  JavaScript handlers run to completion; the only       *)
(* suspension points are the awaits.  A decode (processFile) captures      *)
(* nothing of the pending list, so a handler that awaits a decode and      *)
(* then applies a functional update is one step taken at the moment the    *)
(* update is applied; a single-slot upload whose pair was removed while    *)
(* the decode was in flight is the step with an id that is not in the      *)
(* list.  processBatch is suspended at each service call, and every other  *)
(* handler can run while it is suspended: none of them is gated by         *)
(* isStudioBusy, only the EXECUTE DRAFT button is (line 353).              *)
(* A handler reads pendingPairs / project of the latest render, which is   *)
(* taken to be the current state.                                          *)
(*                                                                         *)
(* Objects.  Array.filter keeps the element objects, map with a spread     *)
(* ({...p, x}) allocates a new object for the matching element only.       *)
(* validPairs (line 137) therefore holds the very objects of the list;     *)
(* `aliased` is the set of pair ids whose object in pendingPairs is still  *)
(* the object held in validPairs.  A write through one is seen by both.    *)
(***************************************************************************)
EXTENDS Integers, Sequences, FiniteSets, TLC

\* ------------------------------------------------------------------ bounds
MaxPairs == 2      \* longest pending list explored
MaxFiles == 2      \* most files in one drop event
MaxShots == 2      \* most shots in the project
OpsMaxPairs == 2   \* longest list a single store operation is applied to
OpsMaxFiles == 3   \* most files in the drop event applied to it

\* ------------------------------------------------------------------ values
Null == "null"                 \* JS null: no image / failed decode
Images == {"imgA", "imgB"}     \* data URLs produced by processFile
Payloads == Images \cup {Null} \* reader.result: a data URL, or null on error
Statuses == {"idle", "processing", "completed", "error"}
Fields == {"source", "target"}
DropTypes == {"alpha", "beta", "mixed"}
\* project.startingSequenceNumber; 0 also stands for undefined: `|| 1` applies
StartNumbers == {0, 5}
\* a dropped or picked file: its MIME test and what its decode resolves to
FilesOver(images) ==
    {[image |-> FALSE, data |-> Null]}
        \cup {[image |-> TRUE, data |-> d] : d \in images \cup {Null}}
Files == FilesOver(Images)

VARIABLES
    pendingPairs,          \* useState<PendingPair[]>
    project,               \* the externally owned Project (prop)
    isStudioBusy,          \* the busy flag behind setIsStudioBusy
    pc,                    \* processBatch: "idle" or "await" (service call)
    validPairs,            \* processBatch's snapshot of qualifying pairs
    idx,                   \* position of the for-of loop in validPairs
    currentSequenceCount,  \* processBatch's running counter
    aliased,               \* ids whose list object is the validPairs object
    run,                   \* history of the batch run: the counter's first
                           \*   value, the outcome of each call, the shots
                           \*   appended and the ids of the pairs they were
                           \*   made for
    original,              \* history: list and shots when the batch began,
                           \*   while no other handler has run since
    last,                  \* history: the last store operation and its input
    highest,               \* history: the largest sequenceOrder given to a
                           \*   shot so far, 0 if none (kept by SpecRuns)
    drop                   \* handleBatchDrop awaiting its decodes (line 79):
                           \*   the image files, the zone and the order the
                           \*   decodes completed in (kept by SpecDrop;
                           \*   elsewhere the drop is one step)

vars == <<pendingPairs, project, isStudioBusy, pc, validPairs, idx,
          currentSequenceCount, aliased, run, original, last, highest, drop>>

batchVars == <<isStudioBusy, pc, validPairs, idx, currentSequenceCount>>

\* ----------------------------------------------------------------- helpers
PendingPair(id, s, t, st) ==
    [id |-> id, source |-> s, target |-> t, status |-> st]

Ids(list) == {list[i].id : i \in 1..Len(list)}

\* crypto.randomUUID(): an id no live object carries.  The least unused
\* number stands for it; ids of pairs no reference is left to are reused.
randomUUID(used) ==
    CHOOSE i \in 1..(Cardinality(used) + 1) :
        i \notin used /\ \A j \in 1..(i - 1) : j \in used

\* { id: crypto.randomUUID(), source: null, target: null, status: 'idle' }
NewPair(used) == PendingPair(randomUUID(used), Null, Null, "idle")

LiveIds == Ids(pendingPairs) \cup Ids(validPairs)

\* mutant: the id test is missing
SetStatusOfAll(list, id, st) ==
    [i \in 1..Len(list) |-> [list[i] EXCEPT !.status = st]]

\* prev.map(p => p.id === id ? { ...p, status } : p)
SetStatus(list, id, st) ==
    [i \in 1..Len(list) |->
        IF list[i].id = id THEN [list[i] EXCEPT !.status = st] ELSE list[i]]

\* mutant: the new object is built without the spread of the old one
SetFieldOfFreshPair(list, id, type, base64) ==
    [i \in 1..Len(list) |->
        IF list[i].id = id
          THEN [PendingPair(id, Null, Null, "idle") EXCEPT ![type] = base64]
          ELSE list[i]]

\* prev.map(p => p.id === id ? { ...p, [type]: base64 } : p)
SetField(list, id, type, base64) ==
    [i \in 1..Len(list) |->
        IF list[i].id = id THEN [list[i] EXCEPT ![type] = base64] ELSE list[i]]

\* (project.startingSequenceNumber || 1)
StartOf(p) == IF p.startingSequenceNumber = 0 THEN 1
              ELSE p.startingSequenceNumber

NoRun == [base |-> 0, results |-> <<>>, made |-> <<>>, appended |-> <<>>,
          reported |-> <<>>]
NoOriginal == [pairs |-> <<>>, shots |-> <<>>]
NoLast == [op |-> "none"]
NoDrop == [pc |-> "idle"]

\* History is kept only as long as it is needed: `original` while nothing
\* but the batch itself has run, `run` until the first step after the batch.
Disturb ==
    /\ original' = NoOriginal
    /\ run' = IF pc = "idle" THEN NoRun ELSE run

Init ==
    /\ pendingPairs = <<PendingPair(1, Null, Null, "idle")>>
    /\ project \in [startingSequenceNumber : StartNumbers, shots : {<<>>}]
    /\ isStudioBusy = FALSE
    /\ pc = "idle"
    /\ validPairs = <<>>
    /\ idx = 0
    /\ currentSequenceCount = 0
    /\ aliased = {}
    /\ run = NoRun
    /\ original = NoOriginal
    /\ last = NoLast
    /\ highest = 0
    /\ drop = NoDrop

\* ----------------------------------------------------- pending-pair store
\* addPair, lines 44-46
AddPairTo(list, used) == Append(list, NewPair(used))

AddPair ==
    /\ pendingPairs' = AddPairTo(pendingPairs, LiveIds)
    /\ UNCHANGED <<project, batchVars, aliased>>

\* mutant: the length test is missing
RemoveFromFilterOnly(list, id, used) ==
    SelectSeq(list, LAMBDA p : p.id # id)

\* removePendingPair, lines 48-54
RemoveFrom(list, id, used) ==
    IF Len(list) <= 1
      THEN <<NewPair(used)>>
      ELSE SelectSeq(list, LAMBDA p : p.id # id)

RemovePendingPair(id) ==
    /\ pendingPairs' = RemoveFrom(pendingPairs, id, LiveIds)
    /\ aliased' = aliased \cap Ids(pendingPairs')
    /\ UNCHANGED <<project, batchVars>>

\* handleImageUpload, lines 64-70 (handleDropSlot, lines 123-129, and the
\* file inputs, lines 308 and 328, call it)
UploadTo(list, id, file, type) ==
    IF ~file.image THEN list ELSE SetField(list, id, type, file.data)

HandleImageUpload(id, file, type) ==
    /\ pendingPairs' = UploadTo(pendingPairs, id, file, type)
    /\ aliased' = IF file.image THEN aliased \ {id} ELSE aliased
    /\ UNCHANGED <<project, batchVars>>

\* handleBatchDrop, line 76: keep the image files; line 79: decode them
ImageFiles(files) == SelectSeq(files, LAMBDA f : f.image)
Base64Files(files) ==
    [i \in 1..Len(ImageFiles(files)) |-> ImageFiles(files)[i].data]

\* mutant: the beta branch copied from the alpha branch unchanged
FieldOfCopied(type) == "source"

FieldOf(type) == IF type = "alpha" THEN "source" ELSE "target"

\* lines 85-91 and 93-99: base64Files.forEach((img, i) => ...) from index i
RECURSIVE ForEachColumn(_, _, _, _, _)
ForEachColumn(currentPairs, imgs, field, i, used) ==
    IF i > Len(imgs) THEN currentPairs
    ELSE IF i <= Len(currentPairs)
      THEN ForEachColumn([currentPairs EXCEPT ![i][field] = imgs[i]],
                         imgs, field, i + 1, used)
      ELSE ForEachColumn(
             Append(currentPairs,
                    [NewPair(used \cup Ids(currentPairs))
                        EXCEPT ![field] = imgs[i]]),
             imgs, field, i + 1, used)

\* lines 101-109: the for loop building newPairs, from index i (1-based)
RECURSIVE MixedNewPairs(_, _, _)
MixedNewPairs(imgs, i, used) ==
    IF i > Len(imgs) THEN <<>>
    ELSE LET p == PendingPair(randomUUID(used), imgs[i],
                              IF i + 1 <= Len(imgs) THEN imgs[i + 1] ELSE Null,
                              "idle")
         IN <<p>> \o MixedNewPairs(imgs, i + 2, used \cup {p.id})

\* mutant: the mixed drop keeps the empty pairs
BatchDropUpdaterKeepsAll(prev, imgs, type, used) ==
    IF type \in {"alpha", "beta"}
      THEN ForEachColumn(prev, imgs, FieldOf(type), 1, used)
      ELSE prev \o MixedNewPairs(imgs, 1, used \cup Ids(prev))

\* lines 81-114: the updater handed to setPendingPairs
BatchDropUpdater(prev, imgs, type, used) ==
    IF type \in {"alpha", "beta"}
      THEN ForEachColumn(prev, imgs, FieldOf(type), 1, used)
      ELSE SelectSeq(prev, LAMBDA p : p.source # Null \/ p.target # Null)
             \o MixedNewPairs(imgs, 1, used \cup Ids(prev))

\* lines 87 and 95 assign to the pair object itself: a pair object that
\* validPairs also holds changes there too
WriteThrough(snapshot, prev, imgs, type, shared) ==
    IF type = "mixed" THEN snapshot
    ELSE [j \in 1..Len(snapshot) |->
            LET hit == {i \in 1..Len(prev) :
                          /\ i <= Len(imgs)
                          /\ prev[i].id = snapshot[j].id
                          /\ prev[i].id \in shared}
            IN IF hit = {} THEN snapshot[j]
               ELSE [snapshot[j] EXCEPT
                        ![FieldOf(type)] = imgs[CHOOSE i \in hit : TRUE]]]

\* handleBatchDrop, lines 72-115
HandleBatchDrop(files, type) ==
    /\ IF Len(ImageFiles(files)) = 0
         THEN UNCHANGED <<pendingPairs, validPairs, aliased>>
         ELSE /\ pendingPairs' = BatchDropUpdater(pendingPairs,
                                    Base64Files(files), type, LiveIds)
              /\ validPairs' = WriteThrough(validPairs, pendingPairs,
                                    Base64Files(files), type, aliased)
              /\ aliased' = aliased \cap Ids(pendingPairs')
    /\ UNCHANGED <<project, isStudioBusy, pc, idx, currentSequenceCount>>

\* handleBatchDrop as its two parts.  Lines 72-79: the image files are kept
\* and their decodes started, all at once.
BeginBatchDrop(files, type) ==
    /\ drop.pc = "idle"
    /\ drop' = IF Len(ImageFiles(files)) = 0 THEN drop
               ELSE [pc |-> "decoding", files |-> ImageFiles(files),
                     type |-> type, order |-> <<>>]
    /\ UNCHANGED <<pendingPairs, project, batchVars, aliased>>

\* mutant: the payloads are collected as the decodes complete
PromiseAllAsCompleted(files, order) ==
    [k \in 1..Len(order) |-> files[order[k]].data]

\* line 79: Promise.all resolves, once every decode has completed, to the
\* payloads at the positions of their files, whatever `order` the decodes
\* completed in
PromiseAll(files, order) == [i \in 1..Len(files) |-> files[i].data]

\* the files of the drop whose decode has not completed yet
Pending(d) ==
    {i \in 1..Len(d.files) : \A k \in 1..Len(d.order) : d.order[k] # i}

\* the decode of file i completes (line 59); with the last one the await of
\* line 79 is over and lines 81-114 run in the same turn
DecodeCompletes(i) ==
    /\ drop.pc = "decoding"
    /\ i \in Pending(drop)
    /\ LET order == Append(drop.order, i)
           base64Files == PromiseAll(drop.files, order)
       IN IF Pending(drop) # {i}
            THEN /\ drop' = [drop EXCEPT !.order = order]
                 /\ UNCHANGED <<pendingPairs, validPairs, aliased>>
            ELSE /\ drop' = NoDrop
                 /\ pendingPairs' = BatchDropUpdater(pendingPairs, base64Files,
                                                     drop.type, LiveIds)
                 /\ validPairs' = WriteThrough(validPairs, pendingPairs,
                                               base64Files, drop.type, aliased)
                 /\ aliased' = aliased \cap Ids(pendingPairs')
    /\ UNCHANGED <<project, isStudioBusy, pc, idx, currentSequenceCount>>

\* ------------------------------------------------------ project callbacks
\* line 232: onUpdateProject(prev => ({...prev, startingSequenceNumber: n}))
SetStartingSequenceNumber(n) ==
    /\ project' = [project EXCEPT !.startingSequenceNumber = n]
    /\ UNCHANGED <<pendingPairs, batchVars, aliased>>

\* line 381: shots: prev.shots.filter(s => s.id !== shot.id); shot ids are
\* unique, so the shot at one position is the one that goes
DeleteShotAt(shots, k) ==
    [i \in 1..(Len(shots) - 1) |-> IF i < k THEN shots[i] ELSE shots[i + 1]]

DeleteShot(k) ==
    /\ project' = [project EXCEPT !.shots = DeleteShotAt(project.shots, k)]
    /\ UNCHANGED <<pendingPairs, batchVars, aliased>>

\* line 288: PLATE {(project.startingSequenceNumber || 1) +
\* project.shots.length + idx}, idx the 0-based index in pendingPairs
PlateNumber(p, i) == StartOf(p) + Len(p.shots) + i

\* --------------------------------------------------------- batch processor
\* mutant: only the pairs never tried are taken
QualifyingIdleOnly(list) ==
    SelectSeq(list, LAMBDA p :
        p.source # Null /\ p.target # Null /\ p.status = "idle")

\* mutant: the target image is not asked for
QualifyingBySource(list) ==
    SelectSeq(list, LAMBDA p : p.source # Null /\ p.status # "completed")

\* line 137
Qualifying(list) ==
    SelectSeq(list, LAMBDA p :
        p.source # Null /\ p.target # Null /\ p.status # "completed")

\* mutant: ++currentSequenceCount
NewShotPreIncrement(pair, count) ==
    [sequenceOrder |-> count + 1,
     sourceImage |-> pair.source, targetImage |-> pair.target]

\* lines 176-187; topic, visualAnalysis and actionPrompt are whatever the
\* service returned and the metadata is fixed: neither is modelled
NewShot(pair, count) ==
    [sequenceOrder |-> count,
     sourceImage |-> pair.source, targetImage |-> pair.target]

\* mutant: the pairs in error are dropped as well
PurgeErrorsToo(list, used) ==
    LET filtered == SelectSeq(list, LAMBDA p :
                        p.status # "completed" /\ p.status # "error")
    IN IF Len(filtered) > 0 THEN filtered ELSE <<NewPair(used)>>

\* mutant: the final purge is missing
PurgeNothing(list, used) == list

\* mutant: the list is left empty
PurgeToEmpty(list, used) ==
    SelectSeq(list, LAMBDA p : p.status # "completed")

\* lines 202-205
Purge(list, used) ==
    LET filtered == SelectSeq(list, LAMBDA p : p.status # "completed")
    IN IF Len(filtered) > 0 THEN filtered ELSE <<NewPair(used)>>

\* line 140: setIsStudioBusy(true); line 201: setIsStudioBusy(false)
BusyForgotten == TRUE
BusyAtStart == TRUE
BusyAtEnd == FALSE

\* mutant: the catch block marks the pair like the try block
StatusAfterAlwaysCompleted(outcome) == "completed"

\* line 194 (the try block ran through) and line 196 (the catch block)
StatusAfter(outcome) == IF outcome = "ok" THEN "completed" ELSE "error"

\* How the try block of one iteration (lines 148-194) ends: "ok", it ran
\* through; "fail", the service call or JSON.parse threw (lines 151, 174);
\* "throws", onUpdateProject threw (line 189), after line 178 took a number.
Outcomes == {"ok", "fail", "throws"}
ServiceOutcomes == {"ok", "fail"}

\* line 178: currentSequenceCount++ runs unless the try block was left
\* before it
CounterAfter(outcome, count) == IF outcome = "fail" THEN count ELSE count + 1

\* mutant: the new shot is put first
AppendShotInFront(shots, shot) == <<shot>> \o shots

\* lines 189-192: shots: [...prev.shots, newShot]
AppendShot(shots, shot) == Append(shots, shot)

\* mutant: the report sits in a finally block
OnApiErrorAlways(log, id, outcome) ==
    Append(log, [pair |-> id, context |-> "Analysis"])

\* mutant: the append sits after the try block, its failure is not caught
OnApiErrorServiceOnly(log, id, outcome) ==
    IF outcome = "fail"
      THEN Append(log, [pair |-> id, context |-> "Analysis"]) ELSE log

\* lines 195-198: the catch block's onApiError(err, "Analysis"); `log` is
\* the calls the callback has received in this run, the host passing one
OnApiError(log, id, outcome) ==
    IF outcome # "ok"
      THEN Append(log, [pair |-> id, context |-> "Analysis"]) ELSE log

\* line 143
InitialSequenceCount(p) == StartOf(p) + Len(p.shots)

\* lines 136-138: the click with nothing to process
ProcessBatchNoop ==
    /\ ~isStudioBusy
    /\ pc = "idle"
    /\ Len(Qualifying(pendingPairs)) = 0
    /\ UNCHANGED <<pendingPairs, project, batchVars, aliased>>

\* lines 136-151: from the click to the first await
ProcessBatch ==
    /\ ~isStudioBusy
    /\ pc = "idle"
    /\ Len(Qualifying(pendingPairs)) # 0
    /\ LET valid == Qualifying(pendingPairs)
       IN /\ validPairs' = valid
          /\ isStudioBusy' = BusyAtStart
          /\ currentSequenceCount' = InitialSequenceCount(project)
          /\ idx' = 1
          /\ pendingPairs' = SetStatus(pendingPairs, valid[1].id, "processing")
          /\ aliased' = Ids(valid) \ {valid[1].id}
          /\ pc' = "await"
          /\ run' = [base |-> currentSequenceCount', results |-> <<>>,
                     made |-> <<>>, appended |-> <<>>, reported |-> <<>>]
          /\ original' = [pairs |-> pendingPairs, shots |-> project.shots]
    /\ UNCHANGED project

\* lines 174-194 (ok) or 195-198 (fail, throws) for the pair at idx, then
\* either the next iteration up to its await (lines 145-151) or lines 201-205
ServiceReturns(outcome) ==
    /\ pc = "await"
    /\ LET pair == validPairs[idx]
           shot == NewShot(pair, currentSequenceCount)
           marked == SetStatus(pendingPairs, pair.id, StatusAfter(outcome))
       IN /\ currentSequenceCount' =
                IF idx < Len(validPairs)
                  THEN CounterAfter(outcome, currentSequenceCount) ELSE 0
          /\ IF outcome = "ok"
               THEN /\ project' = [project EXCEPT
                                      !.shots = AppendShot(project.shots, shot)]
                    /\ run' = [run EXCEPT
                                 !.results = Append(@, outcome),
                                 !.made = Append(@, pair.id),
                                 !.appended = Append(@, shot),
                                 !.reported = OnApiError(@, pair.id, outcome)]
               ELSE /\ project' = project
                    /\ run' = [run EXCEPT
                                 !.results = Append(@, outcome),
                                 !.reported = OnApiError(@, pair.id, outcome)]
          /\ IF idx < Len(validPairs)
               THEN /\ pendingPairs' =
                         SetStatus(marked, validPairs[idx + 1].id, "processing")
                    /\ aliased' = aliased \ {validPairs[idx + 1].id}
                    /\ idx' = idx + 1
                    /\ UNCHANGED <<isStudioBusy, pc, validPairs>>
               ELSE /\ isStudioBusy' = BusyAtEnd
                    /\ pendingPairs' = Purge(marked, Ids(marked))
                    /\ aliased' = {}
                    /\ idx' = 0
                    /\ validPairs' = <<>>
                    /\ pc' = "idle"
    /\ UNCHANGED original

\* ------------------------------------------------------------ environment
RECURSIVE SeqsUpTo(_, _)
SeqsUpTo(S, n) ==
    IF n = 0 THEN {<<>>}
    ELSE LET shorter == SeqsUpTo(S, n - 1)
         IN shorter \cup {Append(q, x) : q \in shorter, x \in S}

DropInputs(F, n) == SeqsUpTo(F, n) \ {<<>>}

StartInputs == {1, 5}     \* parseInt(e.target.value) || 1

\* what the user does to the pending list, at any time, with files of F
StoreOp(F) ==
    \/ AddPair
    \/ \E id \in Ids(pendingPairs) : RemovePendingPair(id)
    \/ \E id \in LiveIds \cup {randomUUID(LiveIds)}, f \in F, type \in Fields :
          HandleImageUpload(id, f, type)   \* the id may have left the list
    \/ \E files \in DropInputs(F, MaxFiles), type \in DropTypes :
          HandleBatchDrop(files, type)

\* what the user does to the project, at any time
ProjectOp ==
    \/ \E n \in StartInputs : SetStartingSequenceNumber(n)
    \/ \E k \in 1..Len(project.shots) : DeleteShot(k)

\* the service call under way returns, with a result or with an error
ServiceStep ==
    /\ \E outcome \in ServiceOutcomes : ServiceReturns(outcome)
    /\ last' = NoLast
    /\ UNCHANGED <<highest, drop>>

\* the click on EXECUTE DRAFT and the returns of the service calls
BatchOp ==
    \/ /\ ProcessBatchNoop
       /\ Disturb
       /\ last' = [op |-> "processBatch", pairs |-> pendingPairs,
                   project |-> project, busy |-> isStudioBusy]
       /\ UNCHANGED <<highest, drop>>
    \/ /\ Len(project.shots) + Len(Qualifying(pendingPairs)) <= MaxShots
       /\ ProcessBatch
       /\ last' = [op |-> "processBatch", pairs |-> pendingPairs,
                   project |-> project, busy |-> isStudioBusy]
       /\ UNCHANGED <<highest, drop>>
    \/ ServiceStep

\* image files whose decode succeeds, and files that are no images
GoodFiles(images) ==
    {[image |-> FALSE, data |-> Null]}
        \cup {[image |-> TRUE, data |-> d] : d \in images}

\* The whole panel.  The files all carry the same image: the handlers test
\* images for null only, so every control path stays open.
Next ==
    \/ /\ StoreOp(GoodFiles({"imgA"})) \/ ProjectOp
       /\ Len(pendingPairs') <= MaxPairs
       /\ Disturb
       /\ last' = NoLast
       /\ UNCHANGED <<highest, drop>>
    \/ BatchOp

Spec == Init /\ [][Next]_vars

\* The service answers every call (with a result or an error).
SpecFair == Spec /\ WF_vars(ServiceStep)

\* The pending list and the batch, with two images told apart: files
\* handled while a batch is suspended carry imgB, all others imgA.
InitSnapshot == Init /\ project.startingSequenceNumber = 0

NextSnapshot ==
    \/ /\ StoreOp(GoodFiles({IF pc = "idle" THEN "imgA" ELSE "imgB"}))
       /\ Len(pendingPairs') <= MaxPairs
       /\ Disturb
       /\ last' = NoLast
       /\ UNCHANGED <<highest, drop>>
    \/ BatchOp

SpecSnapshot == InitSnapshot /\ [][NextSnapshot]_vars

\* One store operation applied to a list at rest.  The list is any list of
\* up to OpsMaxPairs pairs, idle or left in error by an earlier batch; the
\* files are images (imgA, imgB), images whose decode fails, and files that
\* are no images.  `last` records the operation, its input and the list
\* it was applied to.
ListsAtRest(n) ==
    LET slots == [source : {Null, "imgA"}, target : {Null, "imgA"},
                  status : {"idle", "error"}]
    IN UNION {{[i \in 1..len |->
                  PendingPair(i, c[i].source, c[i].target, c[i].status)]
               : c \in [1..len -> slots]} : len \in 1..n}

InitOps ==
    /\ pendingPairs \in ListsAtRest(OpsMaxPairs)
    /\ project = [startingSequenceNumber |-> 0, shots |-> <<>>]
    /\ isStudioBusy = FALSE
    /\ pc = "idle"
    /\ validPairs = <<>>
    /\ idx = 0
    /\ currentSequenceCount = 0
    /\ aliased = {}
    /\ run = NoRun
    /\ original = NoOriginal
    /\ last = NoLast
    /\ highest = 0
    /\ drop = NoDrop

NextOps ==
    /\ last = NoLast
    /\ \/ /\ AddPair
          /\ last' = [op |-> "addPair", before |-> pendingPairs]
       \/ \E id \in Ids(pendingPairs) :
             /\ RemovePendingPair(id)
             /\ last' = [op |-> "removePendingPair", before |-> pendingPairs,
                         id |-> id]
       \/ \E id \in LiveIds \cup {randomUUID(LiveIds)}, f \in Files,
             type \in Fields :
             /\ HandleImageUpload(id, f, type)
             /\ last' = [op |-> "handleImageUpload", before |-> pendingPairs,
                         id |-> id, file |-> f, type |-> type]
       \/ \E files \in DropInputs(Files, OpsMaxFiles), type \in DropTypes :
             /\ HandleBatchDrop(files, type)
             /\ last' = [op |-> "handleBatchDrop", before |-> pendingPairs,
                         files |-> files, type |-> type]
    /\ UNCHANGED <<run, original, highest, drop>>

SpecOps == InitOps /\ [][NextOps]_vars

\* Batch runs and shot deletions.  The list is any list at rest and is
\* changed by the batch only, the starting number is left as it is;
\* `highest` follows the numbers given to shots and `last` records a
\* deletion.  The iterations end in one of the outcomes O.
InitRuns ==
    /\ pendingPairs \in ListsAtRest(OpsMaxPairs)
    /\ project \in [startingSequenceNumber : StartNumbers, shots : {<<>>}]
    /\ isStudioBusy = FALSE
    /\ pc = "idle"
    /\ validPairs = <<>>
    /\ idx = 0
    /\ currentSequenceCount = 0
    /\ aliased = {}
    /\ run = NoRun
    /\ original = NoOriginal
    /\ last = NoLast
    /\ highest = 0
    /\ drop = NoDrop

RunsStep(O) ==
    \/ /\ ProcessBatchNoop
       /\ Disturb
       /\ last' = [op |-> "processBatch", pairs |-> pendingPairs,
                   project |-> project, busy |-> isStudioBusy]
       /\ UNCHANGED <<highest, drop>>
    \/ /\ Len(project.shots) + Len(Qualifying(pendingPairs)) <= MaxShots
       /\ ProcessBatch
       /\ last' = [op |-> "processBatch", pairs |-> pendingPairs,
                   project |-> project, busy |-> isStudioBusy]
       /\ UNCHANGED <<highest, drop>>
    \/ \E outcome \in O :
          /\ ServiceReturns(outcome)
          /\ highest' = IF outcome = "ok" /\ currentSequenceCount > highest
                          THEN currentSequenceCount ELSE highest
          /\ last' = NoLast
          /\ UNCHANGED drop
    \/ \E k \in 1..Len(project.shots) :
          /\ DeleteShot(k)
          /\ Disturb
          /\ last' = [op |-> "deleteShot", k |-> k, before |-> project.shots]
          /\ UNCHANGED <<highest, drop>>

\* the project update does not throw
NextRuns == RunsStep(ServiceOutcomes)

SpecRuns == InitRuns /\ [][NextRuns]_vars

\* the project update can throw
NextThrows == RunsStep(Outcomes)

SpecThrows == InitRuns /\ [][NextThrows]_vars

\* One batch drop with its decodes as steps of their own, completing in
\* any order, on a list of idle pairs; pairs are added and removed while
\* the decodes are under way.  `last` records the drop when it is applied.
InitDrop ==
    /\ InitOps
    /\ \A i \in 1..Len(pendingPairs) : pendingPairs[i].status = "idle"

NextDrop ==
    \/ \E files \in DropInputs(GoodFiles(Images), OpsMaxFiles),
          type \in DropTypes :
          /\ last = NoLast
          /\ BeginBatchDrop(files, type)
          /\ last' = IF drop' = drop
                       THEN [op |-> "handleBatchDrop", before |-> pendingPairs,
                             files |-> files, type |-> type, order |-> <<>>]
                       ELSE last
          /\ UNCHANGED <<run, original, highest>>
    \/ \E i \in 1..OpsMaxFiles :
          /\ DecodeCompletes(i)
          /\ last' = IF drop'.pc = "decoding" THEN last
                     ELSE [op |-> "handleBatchDrop", before |-> pendingPairs,
                           files |-> drop.files, type |-> drop.type,
                           order |-> Append(drop.order, i)]
          /\ UNCHANGED <<run, original, highest>>
    \/ /\ drop.pc = "decoding"
       /\ AddPair
       /\ Len(pendingPairs') <= OpsMaxPairs
       /\ UNCHANGED <<run, original, last, highest, drop>>
    \/ \E id \in Ids(pendingPairs) :
          /\ drop.pc = "decoding"
          /\ RemovePendingPair(id)
          /\ UNCHANGED <<run, original, last, highest, drop>>

SpecDrop == InitDrop /\ [][NextDrop]_vars

\* ------------------------------------------------------------------ claims
QualifiesForBatch(p) ==
    p.source # Null /\ p.target # Null /\ p.status # "completed"

OkCount(res) == Cardinality({i \in 1..Len(res) : res[i] = "ok"})

\* the batch that has just been started by the last step
JustStarted == last.op = "processBatch" /\ pc = "await"

C4_NeverEmpty == Len(pendingPairs) >= 1

\* a batch whose every pair completed has ended: the purge emptied the list
\* and put one fresh empty pair in it
C4_Witness ==
    /\ pc = "idle"
    /\ run.results = <<"ok", "ok">>
    /\ Len(pendingPairs) = 1
    /\ pendingPairs[1].source = Null /\ pendingPairs[1].target = Null

\* C5: a batch works through its qualifying pairs one at a time in list
\* order: at most one pair is 'processing' (one outstanding call), the pairs
\* before the current one are 'completed' or 'error', the ones after it are
\* not yet touched, and the shots are made in that order.
C5_Sequential ==
    /\ Cardinality({i \in 1..Len(pendingPairs) :
                       pendingPairs[i].status = "processing"}) <= 1
    /\ JustStarted =>
          validPairs = SelectSeq(last.pairs, QualifiesForBatch)
    /\ pc = "await" =>
          /\ idx = Len(run.results) + 1
          /\ \A i \in 1..Len(pendingPairs), j \in 1..Len(validPairs) :
                pendingPairs[i].id = validPairs[j].id =>
                   /\ j < idx => pendingPairs[i].status \in {"completed", "error"}
                   /\ j = idx => pendingPairs[i].status = "processing"
                   /\ j > idx => pendingPairs[i].status \in {"idle", "error"}
          /\ Len(run.made) = OkCount(run.results)
          /\ \A k \in 1..Len(run.made) :
                \E j \in 1..Len(run.results) :
                   /\ run.results[j] = "ok"
                   /\ validPairs[j].id = run.made[k]
                   /\ OkCount(SubSeq(run.results, 1, j)) = k

\* the second pair of a batch is being processed after the first failed
C5_Witness ==
    /\ pc = "await" /\ idx = 2
    /\ run.results = <<"fail">>
    /\ Len(pendingPairs) = 2
    /\ pendingPairs[1].status = "error"
    /\ pendingPairs[2].status = "processing"

\* C6: the busy flag is up from before the first pair is marked until every
\* qualifying pair is done, and then comes down, whatever the outcomes.
C6_BusyThroughBatch ==
    /\ [](pc = "await" => isStudioBusy)
    /\ [](\A i \in 1..Len(pendingPairs) :
             pendingPairs[i].status = "processing" => isStudioBusy)
    /\ [][(isStudioBusy /\ ~isStudioBusy') =>
             Len(run.results') = Len(validPairs)]_vars
    /\ (isStudioBusy ~> ~isStudioBusy)

\* a batch of two pairs has ended with one failure and the flag is down
C6_Witness ==
    /\ ~isStudioBusy /\ pc = "idle"
    /\ run.results = <<"ok", "fail">>

\* C7: EXECUTE DRAFT with no pair that has both images and is not
\* completed changes nothing: not the busy flag, not the list, not the
\* project, and no service call is under way.
C7_NoQualifyingPairNoop ==
    (/\ last.op = "processBatch"
     /\ \A i \in 1..Len(last.pairs) : ~QualifiesForBatch(last.pairs[i]))
    => /\ pendingPairs = last.pairs
       /\ project = last.project
       /\ isStudioBusy = last.busy
       /\ pc = "idle"

\* the click came with a pair that has a source image only
C7_Witness ==
    /\ last.op = "processBatch"
    /\ Len(pendingPairs) = 2
    /\ pendingPairs[1].source # Null /\ pendingPairs[1].target = Null
    /\ pendingPairs[2].source = Null /\ pendingPairs[2].target # Null


\* the images of a drop: the decoded image files, in the order dropped
DroppedImages(files) ==
    LET accepted == SelectSeq(files, LAMBDA f : f.image)
    IN [i \in 1..Len(accepted) |-> accepted[i].data]

Larger(a, b) == IF a >= b THEN a ELSE b
Smaller(a, b) == IF a <= b THEN a ELSE b

NewIdle(list, from, before) ==
    /\ \A i \in from..Len(list) :
          list[i].status = "idle" /\ list[i].id \notin Ids(before)
    /\ \A i, j \in from..Len(list) : list[i].id = list[j].id => i = j

\* C8: an alpha (beta) drop of k >= 1 images on m pairs leaves max(k, m)
\* pairs: the first min(k, m) with only their source (target) replaced, by
\* image i; the pairs from m to k - 1 new, idle, with only that field set;
\* the pairs from k to m - 1 as they were.
C8_ColumnDrop ==
    (/\ last.op = "handleBatchDrop"
     /\ last.type \in {"alpha", "beta"}
     /\ Len(DroppedImages(last.files)) >= 1)
    => LET imgs == DroppedImages(last.files)
           k == Len(imgs)
           m == Len(last.before)
           targeted == IF last.type = "alpha" THEN "source" ELSE "target"
           opposite == IF last.type = "alpha" THEN "target" ELSE "source"
       IN /\ Len(pendingPairs) = Larger(k, m)
          /\ \A i \in 1..Smaller(k, m) :
                pendingPairs[i] = [last.before[i] EXCEPT ![targeted] = imgs[i]]
          /\ \A i \in (m + 1)..k :
                /\ pendingPairs[i][targeted] = imgs[i]
                /\ pendingPairs[i][opposite] = Null
          /\ NewIdle(pendingPairs, m + 1, last.before)
          /\ \A i \in (k + 1)..m : pendingPairs[i] = last.before[i]

\* three images dropped on the beta zone over two pairs, the first of
\* which is in error and has a source image
C8_Witness ==
    /\ last.op = "handleBatchDrop" /\ last.type = "beta"
    /\ DroppedImages(last.files) = <<"imgB", "imgA", "imgB">>
    /\ Len(last.before) = 2
    /\ last.before[1].status = "error" /\ last.before[1].source = "imgA"
    /\ Len(pendingPairs) = 3

\* C9: a mixed drop of k >= 1 images appends ceil(k/2) new idle pairs, pair
\* j made of images 2j and 2j+1 (no target for the last when k is odd),
\* after the earlier pairs that hold an image, kept as they were and in
\* order; the earlier pairs that hold none are gone.
C9_MixedDrop ==
    (/\ last.op = "handleBatchDrop"
     /\ last.type = "mixed"
     /\ Len(DroppedImages(last.files)) >= 1)
    => LET imgs == DroppedImages(last.files)
           k == Len(imgs)
           kept == SelectSeq(last.before,
                      LAMBDA p : p.source # Null \/ p.target # Null)
           n == Len(kept)
           made == (k + 1) \div 2
       IN /\ Len(pendingPairs) = n + made
          /\ SubSeq(pendingPairs, 1, n) = kept
          /\ \A j \in 0..(made - 1) :
                /\ pendingPairs[n + j + 1].source = imgs[2 * j + 1]
                /\ pendingPairs[n + j + 1].target =
                      IF 2 * j + 2 <= k THEN imgs[2 * j + 2] ELSE Null
          /\ NewIdle(pendingPairs, n + 1, last.before)

\* three images dropped on the mixed zone over an empty pair followed by a
\* pair with a target only
C9_Witness ==
    /\ last.op = "handleBatchDrop" /\ last.type = "mixed"
    /\ DroppedImages(last.files) = <<"imgA", "imgB", "imgB">>
    /\ Len(last.before) = 2
    /\ last.before[1].source = Null /\ last.before[1].target = Null
    /\ last.before[2].source = Null /\ last.before[2].target = "imgA"
    /\ Len(pendingPairs) = 3
    /\ pendingPairs[3].target = Null

\* a batch has run from start to end with no other handler in between
QuietBatchDone ==
    pc = "idle" /\ original # NoOriginal /\ run.results # <<>>

\* C2: while a batch is suspended on a service call, nothing changes the
\* pairs of the snapshot it captured: the pairs it will process and the
\* images its shots are built from (lines 182-183 read them from there) are
\* those of the moment it started.
C2_SnapshotUntouched ==
    [][(pc = "await" /\ pc' = "await" /\ idx' = idx)
          => validPairs' = validPairs]_vars

\* C3: after a batch in which some calls succeeded and some failed, each
\* pair that succeeded is gone from the list and has exactly one new shot,
\* built from its images; each pair that failed is still in the list, in
\* error, and has no shot.
C3_PartialFailure ==
    (/\ QuietBatchDone
     /\ \E j \in 1..Len(run.results) : run.results[j] = "ok"
     /\ \E j \in 1..Len(run.results) : run.results[j] = "fail")
    => LET valid == SelectSeq(original.pairs, QualifiesForBatch)
       IN /\ Len(run.results) = Len(valid)
          /\ project.shots = original.shots \o run.appended
          /\ Len(run.made) = Len(run.appended)
          /\ \A j \in 1..Len(valid) :
                IF run.results[j] = "ok"
                  THEN /\ valid[j].id \notin Ids(pendingPairs)
                       /\ Cardinality({k \in 1..Len(run.made) :
                                          run.made[k] = valid[j].id}) = 1
                       /\ \A k \in 1..Len(run.made) :
                             run.made[k] = valid[j].id =>
                                /\ run.appended[k].sourceImage = valid[j].source
                                /\ run.appended[k].targetImage = valid[j].target
                  ELSE /\ \E i \in 1..Len(pendingPairs) :
                             pendingPairs[i] =
                                [valid[j] EXCEPT !.status = "error"]
                       /\ \A k \in 1..Len(run.made) : run.made[k] # valid[j].id

\* the first pair (imgA) failed and the second (imgB) succeeded
C3_Witness ==
    /\ QuietBatchDone
    /\ run.results = <<"fail", "ok">>
    /\ original.pairs[1].source = "imgA"
    /\ original.pairs[2].source = "imgB"
    /\ Len(pendingPairs) = 1 /\ pendingPairs[1].status = "error"

\* C10: after a batch whose every call failed no shot was added and the
\* list holds the pairs it held before, none purged, the qualifying ones
\* in error.
C10_AllFailed ==
    (/\ QuietBatchDone
     /\ \A j \in 1..Len(run.results) : run.results[j] = "fail")
    => /\ run.appended = <<>>
       /\ project.shots = original.shots
       /\ Len(pendingPairs) = Len(original.pairs)
       /\ \A i \in 1..Len(original.pairs) :
             pendingPairs[i] =
                IF QualifiesForBatch(original.pairs[i])
                  THEN [original.pairs[i] EXCEPT !.status = "error"]
                  ELSE original.pairs[i]

\* both calls of a batch of two pairs failed
C10_Witness ==
    /\ QuietBatchDone
    /\ run.results = <<"fail", "fail">>
    /\ Len(pendingPairs) = 2
    /\ pendingPairs[1].status = "error" /\ pendingPairs[2].status = "error"

\* the positions of the calls of a run that did not succeed
NotOk(res) == {j \in 1..Len(res) : res[j] # "ok"}

\* the ids of the pairs of the run, in the order it processes them
RunIds ==
    IF pc = "await" THEN [j \in 1..Len(validPairs) |-> validPairs[j].id]
    ELSE LET valid == SelectSeq(original.pairs, QualifiesForBatch)
         IN [j \in 1..Len(valid) |-> valid[j].id]

\* C11: the error callback gets exactly one call per qualifying pair whose
\* service call failed, with the label "Analysis", in the order of the
\* failures, and none for a pair that succeeded; after a failure the batch
\* goes on with the next qualifying pair and ends only when every
\* qualifying pair has had its call.
C11_FailureReportedAndIsolated ==
    /\ Len(run.reported) = Cardinality(NotOk(run.results))
    /\ \A k \in 1..Len(run.reported) : run.reported[k].context = "Analysis"
    /\ (pc = "await" \/ original # NoOriginal) =>
          \A k \in 1..Len(run.reported) :
             \E j \in NotOk(run.results) :
                /\ Cardinality(NotOk(SubSeq(run.results, 1, j))) = k
                /\ run.reported[k].pair = RunIds[j]
    /\ pc = "await" =>
          /\ idx = Len(run.results) + 1
          /\ idx <= Len(validPairs)
          /\ \A i \in 1..Len(pendingPairs) :
                pendingPairs[i].id = validPairs[idx].id =>
                   pendingPairs[i].status = "processing"
    /\ QuietBatchDone => Len(run.results) = Len(RunIds)

\* the first call of a batch of two pairs succeeded and the second failed:
\* one report, for the second pair
C11_Witness ==
    /\ QuietBatchDone
    /\ run.results = <<"ok", "fail">>
    /\ Len(RunIds) = 2
    /\ run.reported = <<[pair |-> RunIds[2], context |-> "Analysis"]>>

\* a file that passes the MIME test and whose decode fails
DecodeFails(f) == f.image /\ f.data = Null

\* C12: a single-slot upload or a batch drop in which the decode of a file
\* fails leaves the pending list exactly as it was.
C12_DecodeFailureLeavesList ==
    /\ (last.op = "handleImageUpload" /\ DecodeFails(last.file))
          => pendingPairs = last.before
    /\ (/\ last.op = "handleBatchDrop"
        /\ \E i \in 1..Len(last.files) : DecodeFails(last.files[i]))
          => pendingPairs = last.before

\* the step has made a shot
ShotMade == Len(run'.appended) = Len(run.appended) + 1

\* C13: with the starting number left alone, every new shot gets a
\* sequenceOrder strictly greater than every sequenceOrder given before,
\* across batch runs and shot deletions.
C13_MonotoneAcrossRuns ==
    [][ShotMade =>
          run'.appended[Len(run'.appended)].sequenceOrder > highest]_vars

\* C14: removePendingPair(id) on a list of one pair leaves one pair, empty
\* and idle; on a longer list it takes out the pair with that id and keeps
\* the others as they were, in their order.
C14_RemovePendingPair ==
    last.op = "removePendingPair" =>
       IF Len(last.before) = 1
         THEN /\ Len(pendingPairs) = 1
              /\ pendingPairs[1].source = Null
              /\ pendingPairs[1].target = Null
              /\ pendingPairs[1].status = "idle"
         ELSE LET k == CHOOSE i \in 1..Len(last.before) :
                          last.before[i].id = last.id
              IN /\ Len(pendingPairs) = Len(last.before) - 1
                 /\ last.id \notin Ids(pendingPairs)
                 /\ \A i \in 1..(k - 1) : pendingPairs[i] = last.before[i]
                 /\ \A i \in k..Len(pendingPairs) :
                       pendingPairs[i] = last.before[i + 1]

\* the only pair, in error with both images, has been removed
C14_Witness ==
    /\ last.op = "removePendingPair"
    /\ Len(last.before) = 1
    /\ last.before[1].source = "imgA" /\ last.before[1].target = "imgA"
    /\ last.before[1].status = "error"
    /\ Len(pendingPairs) = 1 /\ pendingPairs[1].source = Null

\* C15: a single-slot upload of an image file to (id, field) replaces that
\* field of that pair by what the decode gave and nothing else: the pair's
\* status and other field, the other pairs, the length and the order stay;
\* a file that is no image leaves the list as it was.
C15_SingleSlotFrame ==
    last.op = "handleImageUpload" =>
       IF last.file.image
         THEN /\ Len(pendingPairs) = Len(last.before)
              /\ \A i \in 1..Len(last.before) :
                    IF last.before[i].id = last.id
                      THEN /\ pendingPairs[i][last.type] = last.file.data
                           /\ \A f \in {"id", "source", "target", "status"}
                                      \ {last.type} :
                                 pendingPairs[i][f] = last.before[i][f]
                      ELSE pendingPairs[i] = last.before[i]
         ELSE pendingPairs = last.before

\* imgB has been uploaded as the target of the second of two pairs, a pair
\* in error that held imgA as source and as target
C15_Witness ==
    /\ last.op = "handleImageUpload"
    /\ last.file = [image |-> TRUE, data |-> "imgB"]
    /\ last.type = "target"
    /\ Len(last.before) = 2
    /\ last.id = last.before[2].id
    /\ last.before[2] = PendingPair(last.id, "imgA", "imgA", "error")
    /\ pendingPairs[2].target = "imgB"

\* the positions of the iterations of a run in which the update threw
Threw(res) == {j \in 1..Len(res) : res[j] = "throws"}

\* the calls the error callback got for the pair with this id
ReportsFor(id) == {k \in 1..Len(run.reported) : run.reported[k].pair = id}

\* the numbers taken at line 178 by the first j iterations of a run
Taken(res, j) == Cardinality({i \in 1..j : res[i] # "fail"})

\* C16 as claimed: a throw of onUpdateProject during a batch is not dealt
\* with as a per-pair error; it leaves processBatch: the pair is not marked
\* 'error' by it and the error callback gets no call for it.
C16_UpdateFailurePropagates ==
    (pc = "await" \/ original # NoOriginal) =>
       \A j \in Threw(run.results) :
          /\ ReportsFor(RunIds[j]) = {}
          /\ \A i \in 1..Len(pendingPairs) :
                pendingPairs[i].id = RunIds[j] =>
                   pendingPairs[i].status # "error"

\* C16 as the code has it: a throw of onUpdateProject is caught by the
\* iteration's catch block like a failed service call: the pair is marked
\* 'error', the error callback gets one call for it with "Analysis", no
\* shot is appended for it, and the batch goes on to its last pair; the
\* number taken for the shot is not given again in this run.
C16_UpdateFailureCaught ==
    /\ Len(run.appended) = OkCount(run.results)
    /\ (pc = "await" \/ original # NoOriginal) =>
          /\ \A j \in Threw(run.results) :
                /\ Cardinality(ReportsFor(RunIds[j])) = 1
                /\ \A k \in ReportsFor(RunIds[j]) :
                      run.reported[k].context = "Analysis"
                /\ \A k \in 1..Len(run.made) : run.made[k] # RunIds[j]
                /\ \A i \in 1..Len(pendingPairs) :
                      pendingPairs[i].id = RunIds[j] =>
                         pendingPairs[i].status = "error"
          /\ \A k \in 1..Len(run.appended) :
                \E j \in 1..Len(run.results) :
                   /\ run.results[j] = "ok"
                   /\ OkCount(SubSeq(run.results, 1, j)) = k
                   /\ run.appended[k].sequenceOrder =
                         run.base + Taken(run.results, j - 1)
    /\ pc = "await" => idx = Len(run.results) + 1 /\ idx <= Len(validPairs)
    /\ QuietBatchDone => Len(run.results) = Len(RunIds)

\* the update threw for the first pair of a batch and the second pair made
\* the shot: the first is left in error, reported once, and its number is
\* skipped
C16_Witness ==
    /\ QuietBatchDone
    /\ run.results = <<"throws", "ok">>
    /\ Len(pendingPairs) = 1 /\ pendingPairs[1].status = "error"
    /\ run.reported = <<[pair |-> pendingPairs[1].id, context |-> "Analysis"]>>
    /\ Len(run.appended) = 1
    /\ run.appended[1].sequenceOrder = run.base + 1

\* the project as it was when the batch began
ProjectAtStart == [project EXCEPT !.shots = original.shots]

\* C17: the plate number shown for a qualifying pair is the sequenceOrder
\* its shot gets when the batch is run from that state and every call
\* succeeds.
C17_PlateNumberIsLanding ==
    (/\ original # NoOriginal
     /\ \A j \in 1..Len(run.results) : run.results[j] = "ok")
    => \A k \in 1..Len(run.made), i \in 1..Len(original.pairs) :
          original.pairs[i].id = run.made[k] =>
             run.appended[k].sequenceOrder = PlateNumber(ProjectAtStart, i - 1)

\* a pair in error that holds both images
Retriable(p) == p.status = "error" /\ p.source # Null /\ p.target # Null

\* C19: a pair whose call failed is in the list, in error, when the batch
\* has ended; a batch run takes every pair in error that holds both images
\* among its qualifying pairs, in list order with the others.
C19_ErrorPairRetried ==
    /\ QuietBatchDone =>
          \A j \in NotOk(run.results) :
             \E i \in 1..Len(pendingPairs) :
                /\ pendingPairs[i].id = RunIds[j]
                /\ pendingPairs[i].status = "error"
    /\ JustStarted =>
          /\ \A i \in 1..Len(last.pairs) :
                Retriable(last.pairs[i]) => last.pairs[i].id \in Ids(validPairs)
          /\ validPairs = SelectSeq(last.pairs, QualifiesForBatch)

\* a pair left in error by an earlier batch has had its call succeed in
\* the next one: it is the pair the shot was made for, from its images,
\* and it is gone from the list as completed
C19_Witness ==
    /\ QuietBatchDone
    /\ Len(original.pairs) = 1
    /\ Retriable(original.pairs[1])
    /\ run.results = <<"ok">>
    /\ run.made = <<original.pairs[1].id>>
    /\ project.shots = <<NewShot(original.pairs[1], run.base)>>
    /\ original.pairs[1].id \notin Ids(pendingPairs)

\* C20: no step alters a shot once made.  Deleting a shot takes exactly
\* that shot out and leaves the others as they are, in order; every other
\* step, the steps of a batch run among them, keeps every shot in place
\* and at most appends.
C20_ShotsNeverAltered ==
    [][IF last'.op = "deleteShot"
         THEN /\ Len(project'.shots) = Len(project.shots) - 1
              /\ \A i \in 1..(last'.k - 1) :
                    project'.shots[i] = project.shots[i]
              /\ \A i \in last'.k..Len(project'.shots) :
                    project'.shots[i] = project.shots[i + 1]
         ELSE /\ Len(project'.shots) \in
                     {Len(project.shots), Len(project.shots) + 1}
              /\ SubSeq(project'.shots, 1, Len(project.shots)) = project.shots
      ]_vars

\* a batch has appended the shots numbered 1 and 2 and the first has been
\* deleted: the second is left, still numbered 2
C20_Witness ==
    /\ last.op = "deleteShot" /\ last.k = 1
    /\ Len(last.before) = 2
    /\ last.before[1].sequenceOrder = 1 /\ last.before[2].sequenceOrder = 2
    /\ project.shots = <<last.before[2]>>

\* a decode of the drop has completed and others are still under way
DecodeStepBeforeLast ==
    /\ drop.pc = "decoding" /\ drop'.pc = "decoding"
    /\ Len(drop'.order) = Len(drop.order) + 1

\* C18: the decodes of one drop complete one by one in any order; the list
\* is not touched until the last has completed, and is then updated in one
\* step with all the images, image i of the file list at place i (alpha:
\* the source of pair i, beta: its target, mixed: images 2j and 2j+1 the
\* source and target of the j-th new pair).
C18_AtomicOrderedDrop ==
    /\ [][DecodeStepBeforeLast => pendingPairs' = pendingPairs]_vars
    /\ [](last.op = "handleBatchDrop" =>
            LET imgs == DroppedImages(last.files)
                k == Len(imgs)
                n == Len(pendingPairs) - ((k + 1) \div 2)
            IN /\ drop.pc = "idle"
               /\ last.type = "alpha" =>
                     /\ Len(pendingPairs) >= k
                     /\ \A i \in 1..k : pendingPairs[i].source = imgs[i]
               /\ last.type = "beta" =>
                     /\ Len(pendingPairs) >= k
                     /\ \A i \in 1..k : pendingPairs[i].target = imgs[i]
               /\ last.type = "mixed" =>
                     /\ n >= 0
                     /\ \A j \in 0..(((k + 1) \div 2) - 1) :
                           /\ pendingPairs[n + j + 1].source = imgs[2 * j + 1]
                           /\ pendingPairs[n + j + 1].target =
                                 IF 2 * j + 2 <= k THEN imgs[2 * j + 2]
                                 ELSE Null)

\* imgA, imgB and imgA were dropped on the alpha zone and decoded in the
\* order third, first, second
C18_Witness ==
    /\ last.op = "handleBatchDrop" /\ last.type = "alpha"
    /\ DroppedImages(last.files) = <<"imgA", "imgB", "imgA">>
    /\ last.order = <<3, 1, 2>>
    /\ pendingPairs[1].source = "imgA"
    /\ pendingPairs[2].source = "imgB"
    /\ pendingPairs[3].source = "imgA"

\* the pairs of the list with this status
WithStatus(st) == {i \in 1..Len(pendingPairs) : pendingPairs[i].status = st}

\* C21: at most one pair is 'processing' at any time, and while no batch
\* is running (before the first one, and once a batch has done its final
\* purge) no pair is 'processing' or 'completed', whatever adds, removals,
\* single-slot uploads and batch drops ran while the batch was suspended.
C21_StatusLifecycle ==
    /\ Cardinality(WithStatus("processing")) <= 1
    /\ pc = "idle" =>
          /\ WithStatus("processing") = {}
          /\ WithStatus("completed") = {}
    /\ pc = "await" =>
          \A i \in WithStatus("processing") :
             pendingPairs[i].id = validPairs[idx].id

\* a batch of two pairs has ended, one call having succeeded and one
\* failed, with other handlers run while it was suspended: the list holds
\* the pair in error and a pair that came meanwhile
C21_Witness ==
    /\ pc = "idle"
    /\ run.results = <<"ok", "fail">>
    /\ original = NoOriginal
    /\ Len(pendingPairs) = 2
    /\ pendingPairs[1].status = "error"
    /\ pendingPairs[2].status = "idle"

=============================================================================
